---------------------------- MODULE Spec2Model ----------------------------
(***************************************************************************)
(* A model of collage-cli: the shape placer (generateLayout, in its two    *)
(* variants), the layout validator (validateLayout), the validated         *)
(* generator (generateLayoutWithValidation), the position calculator       *)
(* (pos.js), the photo selector (selectPhoto) and the page loop of         *)
(* index.js.                                                                *)
(***************************************************************************)
EXTENDS Integers, Sequences, FiniteSets, TLC

VARIABLES
    variant,      \* which generateLayout runs: "validated" (the validating module) or "basic" (layout.js)
    rows, cols,   \* the arguments of generateLayout
    grid,         \* the occupancy matrix, grid[<<y, x>>]
    blocks,       \* the blocks emitted so far
    index,        \* the next block index
    pass,         \* the pass generateLayout is in: 0 not running, 1..3, 4 returned
    pos,          \* the scan position of the pass, y * cols + x
    layoutBlocks, \* validateLayout's first argument
    constraints,  \* the constraints object: a function from the keys it holds to their values
    validation,   \* what validateLayout returned, << >> before it ran
    maxAttempts,  \* generateLayoutWithValidation's last argument
    attempts,     \* its loop counter
    bestLayout,   \* << >> for null, <<layout>> for a layout
    bestScore,
    genPc,        \* "idle", "loop" (at the while test), "placing" (in generateLayout), "returned"
    result,       \* the layout generateLayoutWithValidation returned
    candidates,   \* history: the layouts generateLayout returned to it, in order
    opt,          \* the CLI options the page loop reads: opt.grid, opt.border
    PAGE_W, PAGE_H, BLEED,
    photoQueue,   \* the photos not yet assigned, each [f, w, h, importance]
    totalPhotos,  \* photoQueue.length before the loop
    pages,        \* history: what every finished page handed to the renderer
    page,         \* the page of the current iteration: [files, grid]
    pageNumber,
    isLastPage,
    lastPageAttempts, \* `attempts` of the last-page regeneration loop
    blockIndex,
    maxPhotosOnPage,
    photosOnPage,
    mainPc,       \* "idle", "loop", "lastPage", "assign", "done", "crashed"
    posArgs,      \* the arguments of a call of createGridConfig, << >> when there is none
    posConfig,    \* calculatePositions' second argument, gridConfig
    posBlocks,    \* calculatePositions' first argument
    posResult,    \* what calculatePositions did: [threw, positions], << >> before it ran
    selQueue,     \* selectPhoto's first argument
    selBlock,     \* selectPhoto's second argument
    selScores,    \* history: the score selectPhoto computed for each photo, <<numerator, denominator>>
    selResult,    \* what selectPhoto returned
    gridPhotosRemaining, \* generateGrid's argument photosRemaining, Null for null
    gridAttempts,        \* generateGrid's attempts
    gridLayoutBlocks,    \* generateGrid's layoutBlocks, << >> before the first round
    gridResult,          \* what generateGrid returned, << >> before it returns
    callPc        \* a single call under study: "idle", the function about to run, or "done"

placerVars == <<variant, rows, cols, grid, blocks, index, pass, pos>>
validateVars == <<layoutBlocks, constraints, validation>>

genVars == <<maxAttempts, attempts, bestLayout, bestScore, genPc, result, candidates>>

mainVars == <<opt, PAGE_W, PAGE_H, BLEED, photoQueue, totalPhotos, pages, page, pageNumber,
              isLastPage, lastPageAttempts, blockIndex, maxPhotosOnPage, photosOnPage, mainPc>>

posVars == <<posArgs, posConfig, posBlocks, posResult>>
selVars == <<selQueue, selBlock, selScores, selResult>>
gridVars == <<gridPhotosRemaining, gridAttempts, gridLayoutBlocks, gridResult>>
callVars == <<posVars, selVars, gridVars, callPc>>

vars == <<placerVars, validateVars, genVars, mainVars, callVars>>

-----------------------------------------------------------------------------
(* Bounds *)

MaxRows == 4
MaxCols == 4
MaxCells == 16

-----------------------------------------------------------------------------
(* Math.random(), in hundredths: the values around every threshold the code *)
(* compares it with (0.25, 0.3, 0.6, 0.7, 0.9).                             *)

RandomValues == {0, 24, 25, 29, 30, 59, 60, 69, 70, 89, 90, 99}

-----------------------------------------------------------------------------
(* The shape placer *)

Min(S) == CHOOSE m \in S : \A n \in S : m <= n

Range(s) == {s[i] : i \in DOMAIN s}

NoShape == <<0, 0>>

allowedShapes == << <<1, 1>>, <<1, 2>>, <<2, 1>>, <<2, 2>>,
                    <<2, 3>>, <<3, 2>>, <<3, 4>>, <<4, 3>> >>
smallShapes == << <<1, 1>>, <<1, 2>>, <<2, 1>> >>
mediumShapesWithStrip == << <<2, 2>>, <<2, 3>>, <<3, 1>> >>

mediumShapes == << <<2, 2>>, <<2, 3>>, <<3, 2>> >>
largeShapes == << <<3, 4>>, <<4, 3>> >>

basicSmallShapes == << <<1, 1>>, <<2, 1>>, <<1, 2>> >>
basicMediumShapes == << <<2, 2>> >>
basicLargeShapes == << <<3, 1>>, <<1, 3>>, <<3, 2>>, <<2, 3>> >>

Cells(r, c) == (0 .. r - 1) \X (0 .. c - 1)

emptyGrid(r, c) == [cell \in Cells(r, c) |-> FALSE]

Footprint(x, y, w, h) == {<<y + dy, x + dx>> : dy \in 0 .. h - 1, dx \in 0 .. w - 1}

canPlaceBoundsOnly(r, c, g, x, y, w, h) == ~(x + w > c \/ y + h > r)

(* canPlace of a generateLayout(r, c) call whose grid is g. *)
canPlace(r, c, g, x, y, w, h) ==
    /\ ~(x + w > c \/ y + h > r)
    /\ \A cell \in Footprint(x, y, w, h) : ~g[cell]

placeGridTopLeftOnly(g, x, y, w, h) ==
    [cell \in DOMAIN g |-> IF cell = <<y, x>> THEN TRUE ELSE g[cell]]

placeGrid(g, x, y, w, h) ==
    [cell \in DOMAIN g |-> IF cell \in Footprint(x, y, w, h) THEN TRUE ELSE g[cell]]

placeBlockIndexFromOne(bs, i, x, y, w, h) ==
    Append(bs, [x |-> x, y |-> y, w |-> w, h |-> h, index |-> i + 1])

placeBlock(bs, i, x, y, w, h) ==
    Append(bs, [x |-> x, y |-> y, w |-> w, h |-> h, index |-> i])

(* Fisher-Yates draws j uniformly in 0..i at every step, so shuffle can    *)
(* return every order of arr.                                               *)
orders ==
    [n \in 0 .. 4 |-> {p \in [1 .. n -> 1 .. n] : \A i, j \in 1 .. n : p[i] = p[j] => i = j}]

shuffle(arr) == {[i \in 1 .. Len(arr) |-> arr[p[i]]] : p \in orders[Len(arr)]}

(* for (shape of order) if (canPlace(...)) { place(...); break }: the shape *)
(* placed, NoShape when none fits.                                          *)
firstPlaceable(r, c, g, order, x, y) ==
    LET fits == {i \in 1 .. Len(order) : canPlace(r, c, g, x, y, order[i][1], order[i][2])}
    IN  IF fits = {} THEN NoShape ELSE order[Min(fits)]

(* The shapes that trying shuffle(arr) in order can place.  For the eight   *)
(* allowedShapes the 8! orders are not enumerated: the first placeable shape *)
(* of an arbitrary order is an arbitrary placeable shape.                   *)
tryShuffled(r, c, g, arr, x, y) ==
    IF Len(arr) <= 4
    THEN {firstPlaceable(r, c, g, order, x, y) : order \in shuffle(arr)}
    ELSE LET fit == {s \in Range(arr) : canPlace(r, c, g, x, y, s[1], s[2])}
         IN  IF fit = {} THEN {NoShape} ELSE fit

(* part_000's first pass: rand < 0.25 on a grid of at least 4x4 tries the  *)
(* large shapes, rand < 0.6 the medium ones, anything else none.           *)
firstPassShapes(r, c, rand) ==
    IF rand < 25 /\ r >= 4 /\ c >= 4 THEN largeShapes
    ELSE IF rand < 60 THEN mediumShapes
    ELSE << >>

(* layout.js's first pass: rand < 0.3 tries the medium shapes. *)
basicFirstPassShapes(rand) ==
    IF rand < 30 THEN basicMediumShapes ELSE << >>

secondPassShapes(rand) ==
    IF rand < 60 THEN smallShapes
    ELSE IF rand < 90 THEN mediumShapes
    ELSE largeShapes

basicSecondPassShapes(rand) ==
    IF rand < 70 THEN basicSmallShapes
    ELSE IF rand < 90 THEN basicLargeShapes
    ELSE << >>

(* What one iteration of the first pass can place at the free cell (x, y): *)
(* a shape, or NoShape.                                                     *)
firstPassPlaced(v, r, c, g, x, y) ==
    UNION {tryShuffled(r, c, g, arr, x, y) :
             arr \in {IF v = "validated" THEN firstPassShapes(r, c, rand)
                      ELSE basicFirstPassShapes(rand) : rand \in RandomValues}}

(* part_000's second pass at a free cell: the drawn category, then any     *)
(* allowed shape, then 1x1.                                                 *)
validatedSecondPassPlaced(r, c, g, arr, x, y) ==
    LET first == tryShuffled(r, c, g, arr, x, y)
    IN  (first \ {NoShape})
          \cup (IF NoShape \in first
                THEN LET any == tryShuffled(r, c, g, allowedShapes, x, y)
                     IN  (any \ {NoShape}) \cup (IF NoShape \in any THEN {<<1, 1>>} ELSE {})
                ELSE {})

basicSecondPassPlacedNoFallback(r, c, g, arr, x, y) == tryShuffled(r, c, g, arr, x, y)

(* layout.js's second pass at a free cell: the drawn category, then 1x1. *)
basicSecondPassPlaced(r, c, g, arr, x, y) ==
    LET first == tryShuffled(r, c, g, arr, x, y)
    IN  (first \ {NoShape}) \cup (IF NoShape \in first THEN {<<1, 1>>} ELSE {})

(* What one iteration of the second pass can place at the free cell (x, y). *)
secondPassPlaced(v, r, c, g, x, y) ==
    UNION {IF v = "validated" THEN validatedSecondPassPlaced(r, c, g, arr, x, y)
           ELSE basicSecondPassPlaced(r, c, g, arr, x, y) :
             arr \in {IF v = "validated" THEN secondPassShapes(rand)
                      ELSE basicSecondPassShapes(rand) : rand \in RandomValues}}

(* The third pass, from scan position p on: every cell still free gets a 1x1. *)
RECURSIVE thirdPass(_, _, _, _, _, _)
thirdPass(r, c, g, bs, i, p) ==
    IF p >= r * c THEN <<g, bs, i>>
    ELSE IF ~g[<<p \div c, p % c>>]
         THEN thirdPass(r, c, placeGrid(g, p % c, p \div c, 1, 1),
                        placeBlock(bs, i, p % c, p \div c, 1, 1), i + 1, p + 1)
         ELSE thirdPass(r, c, g, bs, i, p + 1)

(* The layouts generateLayout(r, c) can return from the point where it is  *)
(* in pass ps at scan position p with grid g, blocks bs and next index i.   *)
RECURSIVE layoutsFrom(_, _, _, _, _, _, _, _)
layoutsFrom(v, r, c, g, bs, i, ps, p) ==
    IF ps >= 3 THEN {thirdPass(r, c, g, bs, i, 0)[2]}
    ELSE LET x == p % c
             y == p \div c
             nps == IF p + 1 < r * c THEN ps ELSE ps + 1
             np == IF p + 1 < r * c THEN p + 1 ELSE 0
         IN  IF g[<<y, x>>]
             THEN layoutsFrom(v, r, c, g, bs, i, nps, np)
             ELSE UNION {IF shape = NoShape
                         THEN layoutsFrom(v, r, c, g, bs, i, nps, np)
                         ELSE layoutsFrom(v, r, c, placeGrid(g, x, y, shape[1], shape[2]),
                                          placeBlock(bs, i, x, y, shape[1], shape[2]),
                                          i + 1, nps, np) :
                           shape \in IF ps = 1 THEN firstPassPlaced(v, r, c, g, x, y)
                                     ELSE secondPassPlaced(v, r, c, g, x, y)}

generateLayoutResults(v, r, c) == layoutsFrom(v, r, c, emptyGrid(r, c), << >>, 0, 1, 0)

CellY(p) == p \div cols
CellX(p) == p % cols

(* The next scan position: the following cell, or the first cell of the     *)
(* next pass after the last one (4: generateLayout has returned).           *)
Advance ==
    IF pos + 1 < rows * cols
    THEN pass' = pass /\ pos' = pos + 1
    ELSE pass' = pass + 1 /\ pos' = 0

Place(x, y, shape) ==
    /\ grid' = placeGrid(grid, x, y, shape[1], shape[2])
    /\ blocks' = placeBlock(blocks, index, x, y, shape[1], shape[2])
    /\ index' = index + 1

Skip == UNCHANGED <<grid, blocks, index>>

FirstPass ==
    /\ pass = 1
    /\ LET x == CellX(pos)
           y == CellY(pos)
       IN  IF grid[<<y, x>>]
           THEN Skip
           ELSE \E shape \in firstPassPlaced(variant, rows, cols, grid, x, y) :
                  IF shape = NoShape THEN Skip ELSE Place(x, y, shape)
    /\ Advance
    /\ UNCHANGED <<variant, rows, cols>>
    /\ UNCHANGED <<validateVars, genVars, mainVars, callVars>>

SecondPass ==
    /\ pass = 2
    /\ LET x == CellX(pos)
           y == CellY(pos)
       IN  IF grid[<<y, x>>]
           THEN Skip
           ELSE \E shape \in secondPassPlaced(variant, rows, cols, grid, x, y) :
                  Place(x, y, shape)
    /\ Advance
    /\ UNCHANGED <<variant, rows, cols>>
    /\ UNCHANGED <<validateVars, genVars, mainVars, callVars>>

ThirdPass ==
    /\ pass = 3
    /\ LET done == thirdPass(rows, cols, grid, blocks, index, 0)
       IN  /\ grid' = done[1]
           /\ blocks' = done[2]
           /\ index' = done[3]
    /\ pass' = 4
    /\ pos' = 0
    /\ UNCHANGED <<variant, rows, cols>>
    /\ UNCHANGED <<validateVars, genVars, mainVars, callVars>>

generateLayout == FirstPass \/ SecondPass \/ ThirdPass

MainIdle ==
    /\ opt = [grid |-> 3, border |-> 0]
    /\ PAGE_W = 0
    /\ PAGE_H = 0
    /\ BLEED = 0
    /\ photoQueue = << >>
    /\ totalPhotos = 0
    /\ pages = << >>
    /\ page = [files |-> << >>, grid |-> << >>]
    /\ pageNumber = 0
    /\ isLastPage = FALSE
    /\ lastPageAttempts = 0
    /\ blockIndex = 0
    /\ maxPhotosOnPage = 0
    /\ photosOnPage = 0
    /\ mainPc = "idle"

SelectIdle ==
    /\ selQueue = << >>
    /\ selBlock = << >>
    /\ selScores = << >>
    /\ selResult = 0 - 1

PosIdle ==
    /\ posArgs = << >>
    /\ posConfig = << >>
    /\ posBlocks = << >>
    /\ posResult = << >>

GridIdle ==
    /\ gridPhotosRemaining = 0 - 1
    /\ gridAttempts = 0
    /\ gridLayoutBlocks = << >>
    /\ gridResult = << >>

CallIdle ==
    /\ PosIdle
    /\ SelectIdle
    /\ GridIdle
    /\ callPc = "idle"

GenIdle ==
    /\ maxAttempts = 0
    /\ attempts = 0
    /\ bestLayout = << >>
    /\ bestScore = 0 - 1
    /\ genPc = "idle"
    /\ result = << >>
    /\ candidates = << >>

-----------------------------------------------------------------------------
(* generateLayout(rows, cols) on its own, for every grid within the bounds. *)

InitLayout ==
    /\ variant \in {"validated", "basic"}
    /\ rows \in 1 .. MaxRows
    /\ cols \in 1 .. MaxCols
    /\ rows * cols <= MaxCells
    /\ grid = emptyGrid(rows, cols)
    /\ blocks = << >>
    /\ index = 0
    /\ pass = 1
    /\ pos = 0
    /\ layoutBlocks = << >>
    /\ constraints = << >>
    /\ validation = << >>
    /\ GenIdle
    /\ MainIdle
    /\ CallIdle

NextLayout == FirstPass \/ SecondPass \/ ThirdPass

SpecLayout == InitLayout /\ [][NextLayout]_vars

-----------------------------------------------------------------------------
(* validateLayout.  Ratios are pairs <<numerator, denominator>> and         *)
(* fractions are in hundredths, so that every comparison is exact.          *)

allowedRatios == << <<1, 1>>, <<2, 3>>, <<3, 2>>, <<3, 4>>, <<4, 3>> >>

toleranceHundredths == 1

Abs(n) == IF n < 0 THEN 0 - n ELSE n

(* Math.abs(block.w / block.h - ratio) <= tolerance *)
nearRatio(block, ratio) ==
    Abs(block.w * ratio[2] - ratio[1] * block.h) * 100
        <= toleranceHundredths * block.h * ratio[2]

isValidRatio(block) == \E i \in DOMAIN allowedRatios : nearRatio(block, allowedRatios[i])

(* constraints.key || fallback: the fallback for an absent key and for 0. *)
orDefault(cons, key, fallback) ==
    IF key \in DOMAIN cons /\ cons[key] # 0 THEN cons[key] ELSE fallback

invalidAspectBlocks(bs) == {i \in DOMAIN bs : ~isValidRatio(bs[i])}

uniqueSizes(bs) == {bs[i].w * bs[i].h : i \in DOMAIN bs}

oneByOneCount(bs) == Cardinality({i \in DOMAIN bs : bs[i].w = 1 /\ bs[i].h = 1})

largeBlocKCount(bs) == Cardinality({i \in DOMAIN bs : bs[i].w > 2 \/ bs[i].h > 2})

(* The issue strings of the aspect loop, one per illegal block, in order. *)
RECURSIVE aspectIssues(_, _)
aspectIssues(bs, i) ==
    IF i > Len(bs) THEN << >>
    ELSE (IF isValidRatio(bs[i]) THEN << >> ELSE << <<"aspect", bs[i].index>> >>)
             \o aspectIssues(bs, i + 1)

varietyIssue(bs, cons) ==
    LET minBlockVariety == orDefault(cons, "minBlockVariety", 3)
    IN  Cardinality(uniqueSizes(bs)) < minBlockVariety /\ Len(bs) >= minBlockVariety

(* oneByOneCount / length > maxSingleCellPercent; 0 / 0 is NaN and compares false. *)
singleCellIssue(bs, cons) ==
    LET maxSingleCellPercent == orDefault(cons, "maxSingleCellPercent", 40)
    IN  Len(bs) > 0 /\ oneByOneCount(bs) * 100 > maxSingleCellPercent * Len(bs)

largeIssue(bs, cons) ==
    LET minLargeBlocks == orDefault(cons, "minLargeBlocks", 1)
    IN  largeBlocKCount(bs) < minLargeBlocks /\ Len(bs) >= 4

penalizedScore(bs, cons) ==
    100 - Cardinality(invalidAspectBlocks(bs)) * 20
        - (IF varietyIssue(bs, cons) THEN 15 ELSE 0)
        - (IF singleCellIssue(bs, cons) THEN 10 ELSE 0)
        - (IF largeIssue(bs, cons) THEN 10 ELSE 0)

isValidAt60(invalidAspectCount, score) == invalidAspectCount = 0 /\ score >= 60

isValidResult(invalidAspectCount, score) == invalidAspectCount = 0 /\ score >= 70

unclampedScore(score) == score

clampScore(score) == IF score < 0 THEN 0 ELSE score

validateLayout(bs, cons) ==
    LET invalidAspectCount == Cardinality(invalidAspectBlocks(bs))
        score == penalizedScore(bs, cons)
    IN  [isValid |-> isValidResult(invalidAspectCount, score),
         score |-> clampScore(score),
         issues |-> aspectIssues(bs, 1)
                      \o (IF varietyIssue(bs, cons)
                          THEN << <<"variety", Cardinality(uniqueSizes(bs))>> >> ELSE << >>)
                      \o (IF singleCellIssue(bs, cons)
                          THEN << <<"singleCell", oneByOneCount(bs)>> >> ELSE << >>)
                      \o (IF largeIssue(bs, cons)
                          THEN << <<"large", largeBlocKCount(bs)>> >> ELSE << >>),
         metrics |-> [blockCount |-> Len(bs),
                      uniqueSizes |-> Cardinality(uniqueSizes(bs)),
                      oneByOneCount |-> oneByOneCount(bs),
                      largeBlocKCount |-> largeBlocKCount(bs),
                      invalidAspectCount |-> invalidAspectCount]]

-----------------------------------------------------------------------------
(* validateLayout on its own: block lists made of up to MaxCopies blocks of *)
(* each of six shapes, and constraints objects holding any subset of the    *)
(* three keys.                                                              *)

MaxCopies == 2

ValidateShapes == << <<1, 1>>, <<1, 2>>, <<2, 1>>, <<2, 2>>, <<2, 3>>, <<1, 3>> >>

ConstraintKeys == {"minBlockVariety", "maxSingleCellPercent", "minLargeBlocks"}

ConstraintValues ==
    [minBlockVariety : {0, 2, 4}, maxSingleCellPercent : {0, 20}, minLargeBlocks : {0, 3}]

AllConstraints ==
    {[k \in K |-> full[k]] : K \in SUBSET ConstraintKeys, full \in ConstraintValues}

RECURSIVE copies(_, _, _)
copies(counts, s, i) ==
    IF s > Len(ValidateShapes) THEN << >>
    ELSE IF counts[s] = 0 THEN copies(counts, s + 1, i)
    ELSE << [x |-> 0, y |-> 0, w |-> ValidateShapes[s][1], h |-> ValidateShapes[s][2],
             index |-> i] >>
           \o copies([counts EXCEPT ![s] = counts[s] - 1], s, i + 1)

ValidateInputs == {copies(counts, 1, 0) : counts \in [DOMAIN ValidateShapes -> 0 .. MaxCopies]}

Idle ==
    /\ variant = "validated"
    /\ rows = 1
    /\ cols = 1
    /\ grid = emptyGrid(1, 1)
    /\ blocks = << >>
    /\ index = 0
    /\ pass = 0
    /\ pos = 0

InitValidate ==
    /\ Idle
    /\ GenIdle
    /\ MainIdle
    /\ CallIdle
    /\ layoutBlocks \in ValidateInputs
    /\ constraints \in AllConstraints
    /\ validation = << >>

Validate ==
    /\ validation = << >>
    /\ validation' = validateLayout(layoutBlocks, constraints)
    /\ UNCHANGED <<layoutBlocks, constraints>>
    /\ UNCHANGED <<placerVars, genVars, mainVars, callVars>>

NextValidate == Validate

SpecValidate == InitValidate /\ [][NextValidate]_vars

-----------------------------------------------------------------------------
(* generateLayoutWithValidation *)

createFallbackLayoutColumnMajor(r, c) ==
    [i \in 1 .. r * c |->
        [x |-> (i - 1) \div r, y |-> (i - 1) % r, w |-> 1, h |-> 1, index |-> i - 1]]

(* for y ... for x ... blocks.push({ x, y, w: 1, h: 1, index: index++ }) *)
createFallbackLayout(r, c) ==
    [i \in 1 .. r * c |->
        [x |-> (i - 1) % c, y |-> (i - 1) \div c, w |-> 1, h |-> 1, index |-> i - 1]]

loopContinuesInclusive(done, limit) == done <= limit

(* while (attempts < maxAttempts) *)
loopContinues(done, limit) == done < limit

betterOrEqualScore(score, best) == score >= best

(* if (validation.score > bestScore) *)
betterScore(score, best) == score > best

(* The while test succeeds: generateLayout(rows, cols) is called. *)
GenCall ==
    /\ genPc = "loop"
    /\ loopContinues(attempts, maxAttempts)
    /\ genPc' = "placing"
    /\ grid' = emptyGrid(rows, cols)
    /\ blocks' = << >>
    /\ index' = 0
    /\ pass' = 1
    /\ pos' = 0
    /\ UNCHANGED <<variant, rows, cols, validateVars, mainVars, callVars>>
    /\ UNCHANGED <<maxAttempts, attempts, bestLayout, bestScore, result, candidates>>

(* generateLayout has returned: the rest of the loop body. *)
GenValidate ==
    /\ genPc = "placing"
    /\ pass = 4
    /\ LET layout == blocks
           v == validateLayout(layout, constraints)
       IN  /\ layoutBlocks' = layout
           /\ validation' = v
           /\ candidates' = Append(candidates, layout)
           /\ IF v.isValid
              THEN /\ result' = layout
                   /\ genPc' = "returned"
                   /\ UNCHANGED <<bestLayout, bestScore, attempts>>
              ELSE /\ IF betterScore(v.score, bestScore)
                      THEN bestLayout' = <<layout>> /\ bestScore' = v.score
                      ELSE UNCHANGED <<bestLayout, bestScore>>
                   /\ attempts' = attempts + 1
                   /\ genPc' = "loop"
                   /\ UNCHANGED result
    /\ pass' = 0
    /\ UNCHANGED <<variant, rows, cols, grid, blocks, index, pos, constraints, maxAttempts>>
    /\ UNCHANGED <<mainVars, callVars>>

(* The while test fails: the best attempt, or the fallback. *)
GenExhausted ==
    /\ genPc = "loop"
    /\ ~loopContinues(attempts, maxAttempts)
    /\ result' = IF bestLayout # << >> /\ bestScore > 50
                 THEN bestLayout[1]
                 ELSE createFallbackLayout(rows, cols)
    /\ genPc' = "returned"
    /\ UNCHANGED <<placerVars, validateVars, mainVars, callVars>>
    /\ UNCHANGED <<maxAttempts, attempts, bestLayout, bestScore, candidates>>

MaxAttemptsBound == 2
GenMaxCells == 4

GenConstraints == {c \in AllConstraints : DOMAIN c \subseteq {"minBlockVariety"}}

InitGen ==
    /\ variant = "validated"
    /\ rows \in 1 .. GenMaxCells
    /\ cols \in 1 .. GenMaxCells
    /\ rows * cols <= GenMaxCells
    /\ grid = emptyGrid(rows, cols)
    /\ blocks = << >>
    /\ index = 0
    /\ pass = 0
    /\ pos = 0
    /\ layoutBlocks = << >>
    /\ constraints \in GenConstraints
    /\ validation = << >>
    /\ maxAttempts \in 0 .. MaxAttemptsBound
    /\ attempts = 0
    /\ bestLayout = << >>
    /\ bestScore = 0 - 1
    /\ genPc = "loop"
    /\ result = << >>
    /\ candidates = << >>
    /\ MainIdle
    /\ CallIdle

NextGen ==
    \/ GenCall
    \/ FirstPass
    \/ SecondPass
    \/ ThirdPass
    \/ GenValidate
    \/ GenExhausted

SpecGen == InitGen /\ [][NextGen]_vars

-----------------------------------------------------------------------------
(* pos.js *)

createGridConfigCeil(pageWidth, pageHeight, gridCols, gridRows, padding, bleed) ==
    [cols |-> gridCols,
     rows |-> gridRows,
     cellWidth |-> 0 - ((0 - (pageWidth - bleed * 2)) \div gridCols),
     cellHeight |-> 0 - ((0 - (pageHeight - bleed * 2)) \div gridRows),
     padding |-> padding,
     bleed |-> bleed]

createGridConfig(pageWidth, pageHeight, gridCols, gridRows, padding, bleed) ==
    LET usableWidth == pageWidth - bleed * 2
        usableHeight == pageHeight - bleed * 2
    IN  [cols |-> gridCols,
         rows |-> gridRows,
         cellWidth |-> usableWidth \div gridCols,
         cellHeight |-> usableHeight \div gridRows,
         padding |-> padding,
         bleed |-> bleed]

calculatePositionsThrowsOnConfigOnly(bs, gridConfig) ==
    \/ gridConfig.cellWidth <= 0 \/ gridConfig.cellHeight <= 0
    \/ gridConfig.cols <= 0 \/ gridConfig.rows <= 0

(* Whether calculatePositions throws: a grid value that is 0 or negative,  *)
(* or a block outside the grid.                                             *)
calculatePositionsThrows(bs, gridConfig) ==
    \/ gridConfig.cellWidth = 0 \/ gridConfig.cellHeight = 0
    \/ gridConfig.cols = 0 \/ gridConfig.rows = 0
    \/ gridConfig.cellWidth <= 0 \/ gridConfig.cellHeight <= 0
    \/ gridConfig.cols <= 0 \/ gridConfig.rows <= 0
    \/ \E i \in DOMAIN bs :
          \/ bs[i].x < 0 \/ bs[i].y < 0
          \/ bs[i].x + bs[i].w > gridConfig.cols
          \/ bs[i].y + bs[i].h > gridConfig.rows

calculatePositionsSinglePadding(bs, gridConfig) ==
    [i \in DOMAIN bs |->
        [x |-> bs[i].x * gridConfig.cellWidth + gridConfig.padding + gridConfig.bleed,
         y |-> bs[i].y * gridConfig.cellHeight + gridConfig.padding + gridConfig.bleed,
         width |-> gridConfig.cellWidth * bs[i].w,
         height |-> gridConfig.cellHeight * bs[i].h,
         renderWidth |-> gridConfig.cellWidth * bs[i].w - gridConfig.padding,
         renderHeight |-> gridConfig.cellHeight * bs[i].h - gridConfig.padding,
         index |-> bs[i].index]]

(* What calculatePositions returns when it does not throw; Math.round of  *)
(* an integer is that integer.                                             *)
calculatePositions(bs, gridConfig) ==
    [i \in DOMAIN bs |->
        [x |-> bs[i].x * gridConfig.cellWidth + gridConfig.padding + gridConfig.bleed,
         y |-> bs[i].y * gridConfig.cellHeight + gridConfig.padding + gridConfig.bleed,
         width |-> gridConfig.cellWidth * bs[i].w,
         height |-> gridConfig.cellHeight * bs[i].h,
         renderWidth |-> gridConfig.cellWidth * bs[i].w - gridConfig.padding * 2,
         renderHeight |-> gridConfig.cellHeight * bs[i].h - gridConfig.padding * 2,
         index |-> bs[i].index]]

(* Single calls of createGridConfig and calculatePositions *)

MaxGridDim == 4
MaxPosBlocks == 2

PosPageSizes == {1, 10, 1200}
PosPaddings == {0, 3, 10}
PosBleeds == {0, 2}

(* The blocks the calls draw their layoutBlocks from: some in the grid,    *)
(* some to the left of it, above it, or beyond its right or bottom edge.   *)
PosBlockPool ==
    << [x |-> 0, y |-> 0, w |-> 2, h |-> 2, index |-> 0],
       [x |-> 0, y |-> 0, w |-> 1, h |-> 1, index |-> 1],
       [x |-> 1, y |-> 0, w |-> 1, h |-> 2, index |-> 2],
       [x |-> 0 - 1, y |-> 0, w |-> 1, h |-> 1, index |-> 3],
       [x |-> 0, y |-> 0 - 1, w |-> 1, h |-> 1, index |-> 4],
       [x |-> 3, y |-> 0, w |-> 2, h |-> 1, index |-> 5],
       [x |-> 0, y |-> 3, w |-> 1, h |-> 2, index |-> 6],
       [x |-> 2, y |-> 2, w |-> 2, h |-> 2, index |-> 7] >>

PosBlockLists == UNION {[1 .. k -> Range(PosBlockPool)] : k \in 0 .. MaxPosBlocks}

(* Grid configs handed to calculatePositions that createGridConfig did not make *)
RawGridConfigs ==
    [cols : {0 - 1, 0, 2}, rows : {0 - 1, 0, 2}, cellWidth : {0 - 1, 0, 5},
     cellHeight : {0 - 1, 0, 5}, padding : {0, 3}, bleed : {0}]

InitPos ==
    /\ Idle
    /\ layoutBlocks = << >>
    /\ constraints = << >>
    /\ validation = << >>
    /\ GenIdle
    /\ MainIdle
    /\ SelectIdle
    /\ GridIdle
    /\ posBlocks = << >>
    /\ posResult = << >>
    /\ \/ /\ posArgs \in [pageWidth : PosPageSizes, pageHeight : PosPageSizes,
                           gridCols : 1 .. MaxGridDim, gridRows : 1 .. MaxGridDim,
                           padding : PosPaddings, bleed : PosBleeds]
          /\ posConfig = << >>
          /\ callPc = "createGridConfig"
       \/ /\ posArgs = << >>
          /\ posConfig \in RawGridConfigs
          /\ callPc = "calculatePositions"

CreateGridConfig ==
    /\ callPc = "createGridConfig"
    /\ posConfig' = createGridConfig(posArgs.pageWidth, posArgs.pageHeight, posArgs.gridCols,
                                     posArgs.gridRows, posArgs.padding, posArgs.bleed)
    /\ callPc' = "calculatePositions"
    /\ UNCHANGED <<posArgs, posBlocks, posResult>>
    /\ UNCHANGED <<placerVars, validateVars, genVars, mainVars, selVars, gridVars>>

CalculatePositions ==
    /\ callPc = "calculatePositions"
    /\ \E bs \in PosBlockLists :
          /\ posBlocks' = bs
          /\ posResult' = IF calculatePositionsThrows(bs, posConfig)
                          THEN [threw |-> TRUE, positions |-> << >>]
                          ELSE [threw |-> FALSE, positions |-> calculatePositions(bs, posConfig)]
    /\ callPc' = "done"
    /\ UNCHANGED <<posArgs, posConfig>>
    /\ UNCHANGED <<placerVars, validateVars, genVars, mainVars, selVars, gridVars>>

NextPos == CreateGridConfig \/ CalculatePositions

SpecPos == InitPos /\ [][NextPos]_vars

-----------------------------------------------------------------------------
(* pos.js with fractional padding and bleed (--bleed 0.125in at 300 dpi is *)
(* 37.5 px): both are counted in tenths of a pixel, every other number is   *)
(* an integer.                                                              *)

(* Math.round(v / 10): Math.round rounds halves up, Math.round(-1.5) = -1. *)
roundTenths(v) == (v + 5) \div 10

(* createGridConfig(pageWidth, pageHeight, gridCols, gridRows,             *)
(* paddingTenths / 10, bleedTenths / 10)                                    *)
createGridConfigTenths(pageWidth, pageHeight, gridCols, gridRows, paddingTenths, bleedTenths) ==
    LET usableWidthTenths == pageWidth * 10 - bleedTenths * 2
        usableHeightTenths == pageHeight * 10 - bleedTenths * 2
    IN  [cols |-> gridCols,
         rows |-> gridRows,
         cellWidth |-> usableWidthTenths \div (10 * gridCols),
         cellHeight |-> usableHeightTenths \div (10 * gridRows),
         paddingTenths |-> paddingTenths,
         bleedTenths |-> bleedTenths]

(* What calculatePositions returns for such a config when it does not throw. *)
calculatePositionsTenths(bs, gridConfig) ==
    [i \in DOMAIN bs |->
        [x |-> roundTenths(bs[i].x * gridConfig.cellWidth * 10
                             + gridConfig.paddingTenths + gridConfig.bleedTenths),
         y |-> roundTenths(bs[i].y * gridConfig.cellHeight * 10
                             + gridConfig.paddingTenths + gridConfig.bleedTenths),
         width |-> gridConfig.cellWidth * bs[i].w,
         height |-> gridConfig.cellHeight * bs[i].h,
         renderWidth |-> roundTenths(gridConfig.cellWidth * bs[i].w * 10
                                       - gridConfig.paddingTenths * 2),
         renderHeight |-> roundTenths(gridConfig.cellHeight * bs[i].h * 10
                                        - gridConfig.paddingTenths * 2),
         index |-> bs[i].index]]

MaxRenderDim == 2

RenderPageSizes == {3, 10, 11}
RenderPaddingTenths == {0, 2, 5, 40}
RenderBleedTenths == {0, 5, 20, 375}

(* The layouts that partition a rows x cols grid: those of both            *)
(* generateLayout modules and the fallback.                                 *)
partitionLayouts(r, c) ==
    generateLayoutResults("validated", r, c) \cup generateLayoutResults("basic", r, c)
        \cup {createFallbackLayout(r, c)}

InitRender ==
    /\ Idle
    /\ layoutBlocks = << >>
    /\ constraints = << >>
    /\ validation = << >>
    /\ GenIdle
    /\ MainIdle
    /\ SelectIdle
    /\ GridIdle
    /\ posArgs \in [pageWidth : RenderPageSizes, pageHeight : RenderPageSizes,
                     gridCols : 1 .. MaxRenderDim, gridRows : 1 .. MaxRenderDim,
                     paddingTenths : RenderPaddingTenths, bleedTenths : RenderBleedTenths]
    /\ posConfig = << >>
    /\ posBlocks = << >>
    /\ posResult = << >>
    /\ callPc = "createGridConfig"

RenderCreateGridConfig ==
    /\ callPc = "createGridConfig"
    /\ posConfig' = createGridConfigTenths(posArgs.pageWidth, posArgs.pageHeight,
                                           posArgs.gridCols, posArgs.gridRows,
                                           posArgs.paddingTenths, posArgs.bleedTenths)
    /\ callPc' = "calculatePositions"
    /\ UNCHANGED <<posArgs, posBlocks, posResult>>
    /\ UNCHANGED <<placerVars, validateVars, genVars, mainVars, selVars, gridVars>>

RenderCalculatePositions ==
    /\ callPc = "calculatePositions"
    /\ \E bs \in partitionLayouts(posConfig.rows, posConfig.cols) :
          /\ posBlocks' = bs
          /\ posResult' = IF calculatePositionsThrows(bs, posConfig)
                          THEN [threw |-> TRUE, positions |-> << >>]
                          ELSE [threw |-> FALSE,
                                positions |-> calculatePositionsTenths(bs, posConfig)]
    /\ callPc' = "done"
    /\ UNCHANGED <<posArgs, posConfig>>
    /\ UNCHANGED <<placerVars, validateVars, genVars, mainVars, selVars, gridVars>>

NextRender == RenderCreateGridConfig \/ RenderCalculatePositions

SpecRender == InitRender /\ [][NextRender]_vars

-----------------------------------------------------------------------------
(* index.js: generateGrid *)

Null == 0 - 1

(* Math.ceil(Math.sqrt(n)) *)
ceilSqrt(n) == Min({k \in 0 .. n : k * k >= n})

Max2(a, b) == IF a >= b THEN a ELSE b
Min2(a, b) == IF a <= b THEN a ELSE b

(* opt.grid || 6 *)
gridSizeOption(optGrid) == IF optGrid = 0 THEN 6 ELSE optGrid

(* gridCols = gridRows of generateGrid(page, photosRemaining) *)
gridDimension(optGrid, photosRemaining) ==
    IF photosRemaining # Null /\ photosRemaining > 0
    THEN IF photosRemaining <= 4 THEN Max2(2, ceilSqrt(photosRemaining))
         ELSE IF photosRemaining <= 9 THEN Max2(3, ceilSqrt(photosRemaining))
         ELSE IF photosRemaining <= 16 THEN Max2(4, ceilSqrt(photosRemaining))
         ELSE IF photosRemaining <= 25 THEN Max2(5, ceilSqrt(photosRemaining))
         ELSE gridSizeOption(optGrid)
    ELSE gridSizeOption(optGrid)

(* blockAspectRatio < 0.6 || blockAspectRatio > 2.5 *)
isExtreme(block) == block.w * 10 < 6 * block.h \/ block.w * 10 > 25 * block.h

(* extremeBlocksCount / layoutBlocks.length < 0.2; 0 / 0 is NaN and compares false *)
isPhotoFriendly(bs) ==
    Len(bs) > 0 /\ Cardinality({i \in DOMAIN bs : isExtreme(bs[i])}) * 10 < 2 * Len(bs)

(* The do-while loop after `tries` rounds, every round drawing from      *)
(* `layouts`: a photo-friendly layout ends it, and so does round 20.        *)
RECURSIVE generateGridLayouts(_, _)
generateGridLayouts(layouts, tries) ==
    LET friendly == {bs \in layouts : isPhotoFriendly(bs)}
        others == layouts \ friendly
    IN  friendly \cup (IF others = {} THEN {}
                       ELSE IF tries + 1 >= 20 THEN others
                       ELSE generateGridLayouts(layouts, tries + 1))

(* opt.border: Math.min(Number(opt.border) || 4, 8) *)
paddingOption(border) == Min2(IF border = 0 THEN 4 ELSE border, 8)

(* Every layout generateLayout(gridRows, gridCols) of layout.js can return, *)
(* the small grids computed once.                                           *)
smallGridLayouts == << generateLayoutResults("basic", 1, 1), generateLayoutResults("basic", 2, 2) >>

gridLayouts(dim) ==
    IF dim \in DOMAIN smallGridLayouts THEN smallGridLayouts[dim]
    ELSE generateLayoutResults("basic", dim, dim)

(* const grid = {...gridConfig, layoutBlocks, positions}, or the exception  *)
(* of calculatePositions.                                                   *)
gridOf(layout, gridConfig) ==
    IF calculatePositionsThrows(layout, gridConfig)
    THEN [threw |-> TRUE]
    ELSE [threw |-> FALSE,
          cols |-> gridConfig.cols,
          rows |-> gridConfig.rows,
          cellWidth |-> gridConfig.cellWidth,
          cellHeight |-> gridConfig.cellHeight,
          padding |-> gridConfig.padding,
          bleed |-> gridConfig.bleed,
          layoutBlocks |-> layout,
          positions |-> calculatePositions(layout, gridConfig)]

(* What generateGrid can return, page.grid; [threw |-> TRUE] when          *)
(* calculatePositions throws.                                               *)
generateGrid(optGrid, border, photosRemaining, pageW, pageH, bleed) ==
    LET dim == gridDimension(optGrid, photosRemaining)
        gridConfig == createGridConfig(pageW, pageH, dim, dim, paddingOption(border), bleed)
    IN  {gridOf(layout, gridConfig) : layout \in generateGridLayouts(gridLayouts(dim), 0)}

-----------------------------------------------------------------------------
(* index.js: selectPhoto.  A score is a pair <<numerator, denominator>>    *)
(* with a positive denominator; Math.random() is in hundredths.            *)

SelectRandoms == {0, 50, 99}

scoreGreaterAndPositive(a, b) == a[1] * b[2] > b[1] * a[2] /\ a[1] > 0

(* score > bestScore *)
scoreGreater(a, b) == a[1] * b[2] > b[1] * a[2]

photoScore(photo, layoutBlock, rand) ==
    LET spanCols == layoutBlock.w
        spanRows == layoutBlock.h
        den == 1000 * spanRows * photo.h
        unit == spanRows * photo.h
        isLayoutLandscape == spanCols > spanRows
        isLayoutSquare == spanCols = spanRows
        isPhotoLandscape == photo.w >= photo.h
        isPhotoSquare == Abs(photo.w - photo.h) * 10 < photo.h
        aspectDiff == Abs(spanCols * photo.h - photo.w * spanRows)
        layoutSize == spanCols * spanRows
    IN  << 3 * rand * unit
           + (IF isLayoutSquare /\ isPhotoSquare THEN 3000 * unit
              ELSE IF isLayoutLandscape = isPhotoLandscape THEN 2500 * unit
              ELSE 0 - 500 * unit)
           + (IF 2 * unit - aspectDiff > 0 THEN 1000 * (2 * unit - aspectDiff) ELSE 0)
           + (IF photo.importance >= 3 /\ layoutSize >= 4 THEN 1500 * unit
              ELSE IF photo.importance <= 1 /\ layoutSize <= 2 THEN 1000 * unit
              ELSE IF photo.importance >= 2 /\ layoutSize >= 2 /\ layoutSize <= 4 THEN 500 * unit
              ELSE 0)
           + (IF layoutSize >= 6 /\ photo.importance >= 4 THEN 2000 * unit ELSE 0),
           den >>

(* The scan of selectPhoto from queue position i (1-based) on; the result  *)
(* is the 0-based bestIndex.                                                *)
RECURSIVE selectScan(_, _, _, _, _, _)
selectScan(queue, layoutBlock, rands, i, bestIndex, bestScoreSoFar) ==
    IF i > Len(queue) THEN bestIndex
    ELSE LET score == photoScore(queue[i], layoutBlock, rands[i])
         IN  IF scoreGreater(score, bestScoreSoFar)
             THEN selectScan(queue, layoutBlock, rands, i + 1, i - 1, score)
             ELSE selectScan(queue, layoutBlock, rands, i + 1, bestIndex, bestScoreSoFar)

selectPhoto(queue, layoutBlock) ==
    {selectScan(queue, layoutBlock, rands, 1, 0 - 1, <<0 - 1, 1>>) :
       rands \in [DOMAIN queue -> SelectRandoms]}

-----------------------------------------------------------------------------
(* index.js: renderPhoto and the page loop *)

(* page.files after renderPhoto(page, photo, layoutBlock) *)
renderPhoto(pg, photo, layoutBlock) ==
    LET found == {i \in DOMAIN pg.grid.positions : pg.grid.positions[i].index = layoutBlock.index}
    IN  IF found = {} THEN pg.files
        ELSE LET position == pg.grid.positions[Min(found)]
             IN  IF position.renderWidth <= 0 \/ position.renderHeight <= 0
                 THEN pg.files
                 ELSE Append(pg.files,
                        [input |-> photo.f,
                         x |-> position.x,
                         y |-> position.y,
                         w |-> position.renderWidth,
                         h |-> position.renderHeight,
                         aspectMatch |->
                            Abs(photo.w * position.renderHeight - position.renderWidth * photo.h) * 100
                              <= 15 * position.renderWidth * photo.h])

spliceFirst(queue, i) == Tail(queue)

(* photoQueue.splice(i, 1), i 0-based *)
splice(queue, i) == [k \in 1 .. Len(queue) - 1 |-> IF k <= i THEN queue[k] ELSE queue[k + 1]]

mainLoopLocals == <<pageNumber, isLastPage, lastPageAttempts, blockIndex, maxPhotosOnPage, photosOnPage>>
mainInputs == <<opt, PAGE_W, PAGE_H, BLEED, totalPhotos>>

(* An uncaught exception ends the run. *)
Crash ==
    /\ mainPc' = "crashed"
    /\ UNCHANGED <<page, lastPageAttempts, blockIndex, maxPhotosOnPage, photosOnPage>>

(* Lines 406-410: the for loop over the blocks of `g` begins. *)
BeginAssign(g) ==
    /\ mainPc' = "assign"
    /\ photosOnPage' = 0
    /\ blockIndex' = 0
    /\ maxPhotosOnPage' = Min2(Len(g.layoutBlocks), Len(photoQueue))

(* while (photoQueue.length > 0): a page is created and its grid generated. *)
PageBegin ==
    /\ mainPc = "loop"
    /\ Len(photoQueue) > 0
    /\ pageNumber' = pageNumber + 1
    /\ LET last == Len(photoQueue) <= gridSizeOption(opt.grid) * gridSizeOption(opt.grid)
       IN  /\ isLastPage' = last
           /\ \E g \in generateGrid(opt.grid, opt.border, IF last THEN Len(photoQueue) ELSE Null,
                                     PAGE_W, PAGE_H, BLEED) :
                 IF g.threw
                 THEN Crash
                 ELSE /\ page' = [files |-> << >>, grid |-> g]
                      /\ lastPageAttempts' = 0
                      /\ IF last
                         THEN /\ mainPc' = "lastPage"
                              /\ UNCHANGED <<blockIndex, maxPhotosOnPage, photosOnPage>>
                         ELSE BeginAssign(g)
    /\ UNCHANGED <<mainInputs, photoQueue, pages>>
    /\ UNCHANGED <<placerVars, validateVars, genVars, callVars>>

(* One round of the last-page loop, while (attempts < maxAttempts). *)
LastPageRound ==
    /\ mainPc = "lastPage"
    /\ LET blocksNeeded == Len(photoQueue)
           blocksAvailable == Len(page.grid.layoutBlocks)
           currentGridSize == Max2(page.grid.cols, page.grid.rows)
           newGridSize == Min2(currentGridSize + 1, 10)
       IN  IF ~(lastPageAttempts < 50) \/ blocksAvailable = blocksNeeded
           THEN BeginAssign(page.grid) /\ UNCHANGED <<page, lastPageAttempts>>
           ELSE IF blocksAvailable < blocksNeeded \/ lastPageAttempts < 20
           THEN /\ lastPageAttempts' = lastPageAttempts + 1
                /\ \E g \in generateGrid(IF blocksAvailable < blocksNeeded THEN newGridSize
                                          ELSE opt.grid,
                                          opt.border, Len(photoQueue), PAGE_W, PAGE_H, BLEED) :
                      IF g.threw
                      THEN /\ mainPc' = "crashed"
                           /\ UNCHANGED <<page, blockIndex, maxPhotosOnPage, photosOnPage>>
                      ELSE /\ page' = [page EXCEPT !.grid = g]
                           /\ UNCHANGED <<mainPc, blockIndex, maxPhotosOnPage, photosOnPage>>
           ELSE BeginAssign(page.grid) /\ UNCHANGED <<page, lastPageAttempts>>
    /\ UNCHANGED <<mainInputs, photoQueue, pages, pageNumber, isLastPage>>
    /\ UNCHANGED <<placerVars, validateVars, genVars, callVars>>

(* One round of the for loop: a photo is selected for the block, rendered  *)
(* and removed from the queue.                                              *)
AssignBlock ==
    /\ mainPc = "assign"
    /\ blockIndex < maxPhotosOnPage
    /\ LET layoutBlock == page.grid.layoutBlocks[blockIndex + 1]
       IN  \E selectedPhotoIndex \in selectPhoto(photoQueue, layoutBlock) :
             IF selectedPhotoIndex = 0 - 1
             THEN UNCHANGED <<page, photoQueue, photosOnPage>>
             ELSE /\ page' = [page EXCEPT !.files =
                                renderPhoto(page, photoQueue[selectedPhotoIndex + 1], layoutBlock)]
                  /\ photoQueue' = splice(photoQueue, selectedPhotoIndex)
                  /\ photosOnPage' = photosOnPage + 1
    /\ blockIndex' = blockIndex + 1
    /\ UNCHANGED <<mainInputs, pages, pageNumber, isLastPage, lastPageAttempts, maxPhotosOnPage, mainPc>>
    /\ UNCHANGED <<placerVars, validateVars, genVars, callVars>>

(* The for loop is over: the page goes to the renderer or to layoutData,    *)
(* and `page` goes out of scope.                                            *)
PageEnd ==
    /\ mainPc = "assign"
    /\ ~(blockIndex < maxPhotosOnPage)
    /\ pages' = Append(pages, [output |-> pageNumber, files |-> page.files,
                               photosOnPage |-> photosOnPage])
    /\ page' = [files |-> << >>, grid |-> << >>]
    /\ mainPc' = "loop"
    /\ UNCHANGED <<mainInputs, photoQueue, mainLoopLocals>>
    /\ UNCHANGED <<placerVars, validateVars, genVars, callVars>>

(* The while test fails: the loop is over. *)
LoopEnd ==
    /\ mainPc = "loop"
    /\ ~(Len(photoQueue) > 0)
    /\ mainPc' = "done"
    /\ UNCHANGED <<mainInputs, photoQueue, pages, page, mainLoopLocals>>
    /\ UNCHANGED <<placerVars, validateVars, genVars, callVars>>

MaxPhotos == 3
MaxGridOption == 2

(* The photos the runs draw their queue from, in this order. *)
PhotoPool ==
    << [f |-> 1, w |-> 4, h |-> 3, importance |-> 0],
       [f |-> 2, w |-> 3, h |-> 4, importance |-> 3],
       [f |-> 3, w |-> 1, h |-> 1, importance |-> 5],
       [f |-> 4, w |-> 3, h |-> 2, importance |-> 2],
       [f |-> 5, w |-> 2, h |-> 3, importance |-> 1] >>

initialQueue(n) == [i \in 1 .. n |-> PhotoPool[((i - 1) % Len(PhotoPool)) + 1]]

(* <<PAGE_W, PAGE_H>> without the bleed *)
PageSizes == {<<1, 20>>, <<8, 8>>, <<12, 12>>, <<20, 20>>}
Borders == {0, 2}
Bleeds == {0, 2}

InitMain ==
    /\ Idle
    /\ layoutBlocks = << >>
    /\ constraints = << >>
    /\ validation = << >>
    /\ GenIdle
    /\ CallIdle
    /\ opt \in [grid : 1 .. MaxGridOption, border : Borders]
    /\ BLEED \in Bleeds
    /\ \E size \in PageSizes : PAGE_W = size[1] + BLEED * 2 /\ PAGE_H = size[2] + BLEED * 2
    /\ totalPhotos \in 1 .. MaxPhotos
    /\ photoQueue = initialQueue(totalPhotos)
    /\ pages = << >>
    /\ page = [files |-> << >>, grid |-> << >>]
    /\ pageNumber = 0
    /\ isLastPage = FALSE
    /\ lastPageAttempts = 0
    /\ blockIndex = 0
    /\ maxPhotosOnPage = 0
    /\ photosOnPage = 0
    /\ mainPc = "loop"

NextMain ==
    \/ PageBegin
    \/ LastPageRound
    \/ AssignBlock
    \/ PageEnd
    \/ LoopEnd

SpecMain == InitMain /\ [][NextMain]_vars

-----------------------------------------------------------------------------
(* Single calls of generateGrid(page, photosRemaining), with layout.js's    *)
(* generateLayout running step by step inside its do-while loop.            *)

MaxRemaining == 5

(* <<PAGE_W, PAGE_H>> *)
GridPageSizes == {<<1, 20>>, <<12, 12>>}

InitGrid ==
    /\ Idle
    /\ layoutBlocks = << >>
    /\ constraints = << >>
    /\ validation = << >>
    /\ GenIdle
    /\ PosIdle
    /\ SelectIdle
    /\ opt \in [grid : 1 .. MaxGridOption, border : {0}]
    /\ gridPhotosRemaining \in {Null} \cup 1 .. MaxRemaining
    /\ BLEED = 0
    /\ \E size \in GridPageSizes : PAGE_W = size[1] /\ PAGE_H = size[2]
    /\ photoQueue = << >>
    /\ totalPhotos = 0
    /\ pages = << >>
    /\ page = [files |-> << >>, grid |-> << >>]
    /\ pageNumber = 0
    /\ isLastPage = FALSE
    /\ lastPageAttempts = 0
    /\ blockIndex = 0
    /\ maxPhotosOnPage = 0
    /\ photosOnPage = 0
    /\ mainPc = "idle"
    /\ gridAttempts = 0
    /\ gridLayoutBlocks = << >>
    /\ gridResult = << >>
    /\ callPc = "generateGrid"

(* do { attempts++; layoutBlocks = generateLayout(gridRows, gridCols): the  *)
(* call of layout.js's generateLayout begins.  The previous layout is dead  *)
(* from here on and is kept as << >> until the call returns.               *)
GenerateGridCall ==
    /\ callPc = "generateGrid"
    /\ gridAttempts' = gridAttempts + 1
    /\ gridLayoutBlocks' = << >>
    /\ LET dim == gridDimension(opt.grid, gridPhotosRemaining)
       IN  /\ variant' = "basic"
           /\ rows' = dim
           /\ cols' = dim
           /\ grid' = emptyGrid(dim, dim)
    /\ blocks' = << >>
    /\ index' = 0
    /\ pass' = 1
    /\ pos' = 0
    /\ callPc' = "generateLayout"
    /\ UNCHANGED <<gridPhotosRemaining, gridResult>>
    /\ UNCHANGED <<validateVars, genVars, mainVars, posVars, selVars>>

(* generateLayout has returned: the rest of the loop body and the loop     *)
(* condition.  The loop is left by either break or by its condition.       *)
GenerateGridCheck ==
    /\ callPc = "generateLayout"
    /\ pass = 4
    /\ gridLayoutBlocks' = blocks
    /\ callPc' = IF isPhotoFriendly(blocks) \/ gridAttempts >= 20
                 THEN "createGridConfig"
                 ELSE "generateGrid"
    /\ UNCHANGED <<gridPhotosRemaining, gridAttempts, gridResult>>
    /\ UNCHANGED <<placerVars, validateVars, genVars, mainVars, posVars, selVars>>

(* Lines 203-224: the grid of the layout the loop ended with. *)
GenerateGridReturn ==
    /\ callPc = "createGridConfig"
    /\ LET dim == gridDimension(opt.grid, gridPhotosRemaining)
           g == gridOf(gridLayoutBlocks,
                       createGridConfig(PAGE_W, PAGE_H, dim, dim, paddingOption(opt.border), BLEED))
       IN  /\ gridResult' = g
           /\ page' = IF g.threw THEN page ELSE [page EXCEPT !.grid = g]
    /\ callPc' = "done"
    /\ UNCHANGED <<gridPhotosRemaining, gridAttempts, gridLayoutBlocks>>
    /\ UNCHANGED <<opt, PAGE_W, PAGE_H, BLEED, photoQueue, totalPhotos, pages, pageNumber,
                   isLastPage, lastPageAttempts, blockIndex, maxPhotosOnPage, photosOnPage, mainPc>>
    /\ UNCHANGED <<placerVars, validateVars, genVars, posVars, selVars>>

NextGrid ==
    \/ GenerateGridCall
    \/ generateLayout
    \/ GenerateGridCheck
    \/ GenerateGridReturn

SpecGrid == InitGrid /\ [][NextGrid]_vars

-----------------------------------------------------------------------------
(* Single calls of selectPhoto *)

MaxSelQueue == 3

SelectBlocks ==
    {[x |-> 0, y |-> 0, w |-> shape[1], h |-> shape[2], index |-> 0] :
       shape \in {<<1, 1>>, <<2, 1>>, <<1, 2>>, <<2, 2>>, <<3, 1>>, <<2, 3>>}}

SelectQueues == UNION {[1 .. k -> Range(PhotoPool)] : k \in 0 .. MaxSelQueue}

InitSelect ==
    /\ Idle
    /\ layoutBlocks = << >>
    /\ constraints = << >>
    /\ validation = << >>
    /\ GenIdle
    /\ MainIdle
    /\ PosIdle
    /\ GridIdle
    /\ selQueue \in SelectQueues
    /\ selBlock \in SelectBlocks
    /\ selScores = << >>
    /\ selResult = 0 - 1
    /\ callPc = "selectPhoto"

SelectPhoto ==
    /\ callPc = "selectPhoto"
    /\ \E rands \in [DOMAIN selQueue -> SelectRandoms] :
          /\ selScores' = [i \in DOMAIN selQueue |-> photoScore(selQueue[i], selBlock, rands[i])]
          /\ selResult' = selectScan(selQueue, selBlock, rands, 1, 0 - 1, <<0 - 1, 1>>)
    /\ callPc' = "done"
    /\ UNCHANGED <<selQueue, selBlock>>
    /\ UNCHANGED <<placerVars, validateVars, genVars, mainVars, posVars, gridVars>>

NextSelect == SelectPhoto

SpecSelect == InitSelect /\ [][NextSelect]_vars

(* The step-wise placer and generateLayoutResults agree on what is returned. *)
PlacerAgrees ==
    (pass = 4 /\ rows * cols <= 9) => blocks \in generateLayoutResults(variant, rows, cols)

-----------------------------------------------------------------------------
(* C1: when generateLayout has returned, its blocks partition the rows x   *)
(* cols grid: every block lies inside the grid (x + w <= cols, y + h <=    *)
(* rows) and every cell of the grid is covered by exactly one block.       *)

Covers(b, cell) ==
    /\ b.y <= cell[1] /\ cell[1] < b.y + b.h
    /\ b.x <= cell[2] /\ cell[2] < b.x + b.w

C1_Partition ==
    pass = 4 =>
      /\ \A i \in DOMAIN blocks :
            /\ blocks[i].x >= 0 /\ blocks[i].y >= 0
            /\ blocks[i].w >= 1 /\ blocks[i].h >= 1
            /\ blocks[i].x + blocks[i].w <= cols
            /\ blocks[i].y + blocks[i].h <= rows
      /\ \A cell \in Cells(rows, cols) :
            Cardinality({i \in DOMAIN blocks : Covers(blocks[i], cell)}) = 1

(* A 4x4 grid laid out with a 4x3 block from the first pass and more after it. *)
C1_Witness ==
    /\ pass = 4
    /\ rows = 4 /\ cols = 4
    /\ Len(blocks) >= 3
    /\ blocks[1].w = 4 /\ blocks[1].h = 3
    /\ \E i \in DOMAIN blocks : blocks[i].w = 2 /\ blocks[i].h = 1

-----------------------------------------------------------------------------
(* C5: every layout generateLayoutWithValidation returns has no block that *)
(* validateLayout counts as illegal-aspect (invalidAspectCount = 0).       *)
(* The code returns its best attempt although it failed validation.        *)

C5_ResultAspectLegal ==
    genPc = "returned" =>
      validateLayout(result, constraints).metrics.invalidAspectCount = 0

-----------------------------------------------------------------------------
(* C6: validateLayout counts a block as illegal-aspect exactly when w:h is *)
(* not within 0.01 of one of the seven ratios 1:1, 1:2, 2:1, 2:3, 3:2,     *)
(* 3:4, 4:3.  The code's allowedRatios holds five of them: 1:2 and 2:1 are *)
(* missing.                                                                 *)

sevenRatios == << <<1, 1>>, <<1, 2>>, <<2, 1>>, <<2, 3>>, <<3, 2>>, <<3, 4>>, <<4, 3>> >>

nearSevenRatios(block) ==
    \E i \in DOMAIN sevenRatios :
        Abs(block.w * sevenRatios[i][2] - sevenRatios[i][1] * block.h) * 100
            <= block.h * sevenRatios[i][2]

C6_SevenRatios ==
    validation # << >> =>
      /\ validation.metrics.invalidAspectCount
            = Cardinality({i \in DOMAIN layoutBlocks : ~nearSevenRatios(layoutBlocks[i])})
      /\ \A i \in DOMAIN layoutBlocks :
            (\E k \in DOMAIN allowedShapes :
                 layoutBlocks[i].w = allowedShapes[k][1] /\ layoutBlocks[i].h = allowedShapes[k][2])
              => \A j \in DOMAIN validation.issues :
                     validation.issues[j] # <<"aspect", layoutBlocks[i].index>>

-----------------------------------------------------------------------------
(* C7: validateLayout reports isValid = TRUE exactly when the layout has   *)
(* no illegal-aspect block and the score it returns is at least 70.        *)

C7_IsValid ==
    validation # << >> =>
      (validation.isValid <=>
          (/\ \A i \in DOMAIN layoutBlocks : isValidRatio(layoutBlocks[i])
           /\ validation.score >= 70))

(* A layout of legal blocks only that fails on its score of 65 alone. *)
C7_Witness ==
    /\ validation # << >>
    /\ layoutBlocks # << >>
    /\ ~validation.isValid
    /\ validation.metrics.invalidAspectCount = 0
    /\ validation.score = 65

-----------------------------------------------------------------------------
(* C8: the score validateLayout returns is                                  *)
(* max(0, 100 - 20*I - 15*V - 10*S - 10*L), with I the number of           *)
(* illegal-aspect blocks, V = 1 iff there are fewer distinct w*h block     *)
(* sizes than minBlockVariety in a layout of at least minBlockVariety      *)
(* blocks, S = 1 iff the fraction of 1x1 blocks exceeds                    *)
(* maxSingleCellPercent, L = 1 iff fewer than minLargeBlocks blocks have   *)
(* w > 2 or h > 2 in a layout of at least 4 blocks; so the score is within *)
(* 0..100 and there are I + V + S + L issues.  The thresholds are the ones *)
(* in effect (constraints.key || default), a block size is the product     *)
(* w*h, and the fraction of an empty layout (0/0) exceeds nothing.         *)

-----------------------------------------------------------------------------
(* C9: generateLayoutWithValidation calls generateLayout at most           *)
(* maxAttempts times, returns the first candidate validateLayout reports   *)
(* valid without generating another one, and always terminates: every      *)
(* step strictly decreases a natural-number measure, and a step is         *)
(* possible until it has returned.                                          *)

Invocations == Len(candidates) + (IF genPc = "placing" THEN 1 ELSE 0)

StepsPerAttempt == 2 * rows * cols + 3

Progress ==
    IF genPc # "placing" THEN 0
    ELSE 1 + (CASE pass = 1 -> pos
                [] pass = 2 -> rows * cols + pos
                [] pass = 3 -> 2 * rows * cols
                [] OTHER -> 2 * rows * cols + 1)

Measure ==
    IF genPc = "returned" THEN 0
    ELSE (maxAttempts - attempts) * StepsPerAttempt + 1 - Progress

C9_FirstValid ==
    /\ Invocations <= maxAttempts
    /\ Measure >= 0
    /\ genPc # "returned" => ENABLED NextGen
    /\ \A i \in DOMAIN candidates :
          validateLayout(candidates[i], constraints).isValid =>
            /\ i = Len(candidates)
            /\ genPc = "returned"
            /\ result = candidates[i]

-----------------------------------------------------------------------------
(* C10: when none of the maxAttempts candidates is valid,                  *)
(* generateLayoutWithValidation returns the candidate with the highest     *)
(* validation score (the earliest one on equal scores) if that score       *)
(* exceeds 50, and the uniform 1x1 grid otherwise; it always returns a     *)
(* layout.                                                                  *)

ScoreOf(layout) == validateLayout(layout, constraints).score

UniformGrid ==
    [i \in 1 .. rows * cols |->
        [x |-> (i - 1) % cols, y |-> (i - 1) \div cols, w |-> 1, h |-> 1, index |-> i - 1]]

-----------------------------------------------------------------------------
(* The page loop *)

RECURSIVE placementsOf(_)
placementsOf(ps) == IF ps = << >> THEN << >> ELSE Head(ps).files \o placementsOf(Tail(ps))

(* The placements of the pages that are finished and of the one in the making *)
allPlacements == placementsOf(pages) \o page.files

initialPhotos == {PhotoPool[((i - 1) % Len(PhotoPool)) + 1].f : i \in 1 .. totalPhotos}

(* C2: when the page loop ends, every photo of the initial queue is in the  *)
(* placement list of some page, and the placements of all pages together    *)
(* number as many as the photos the queue started with.                     *)
C2_QueueConservation ==
    mainPc = "done" =>
        /\ \A f \in initialPhotos : \E i \in DOMAIN allPlacements : allPlacements[i].input = f
        /\ Len(placementsOf(pages)) = totalPhotos

(* C3: at every point of a run no photo is in two placements, and a photo  *)
(* that has a placement is no longer in the queue.                          *)
C3_NoPhotoTwice ==
    /\ \A i, j \in DOMAIN allPlacements :
          allPlacements[i].input = allPlacements[j].input => i = j
    /\ \A i \in DOMAIN allPlacements, k \in DOMAIN photoQueue :
          allPlacements[i].input # photoQueue[k].f

(* A finished run of several pages, one of them with several placements,   *)
(* where the photo chosen for some block was not at the head of the queue.  *)
C3_Witness ==
    /\ mainPc = "done"
    /\ Len(allPlacements) >= 3
    /\ \E i \in DOMAIN pages : Len(pages[i].files) >= 2
    /\ \E i \in DOMAIN allPlacements : allPlacements[i].input # i

(* C4: the page loop ends with an empty queue, every page it made took at  *)
(* least one photo from the queue, and it made at most as many pages as     *)
(* there were photos.                                                       *)
C4_ForwardProgress ==
    /\ \A i \in DOMAIN pages : pages[i].photosOnPage >= 1
    /\ Len(pages) <= totalPhotos
    /\ mainPc \in {"done", "crashed"} => photoQueue = << >>

-----------------------------------------------------------------------------
(* C11: with maxAttempts = 0 generateLayoutWithValidation returns exactly  *)
(* rows*cols blocks, each 1x1, in row-major order with indices             *)
(* 0..rows*cols-1, the block at (x, y) having index y*cols + x.            *)

C11_FallbackDeterminism ==
    (genPc = "returned" /\ maxAttempts = 0) =>
        /\ Len(result) = rows * cols
        /\ \A i \in DOMAIN result :
              /\ result[i].w = 1 /\ result[i].h = 1
              /\ result[i].index = i - 1
              /\ result[i].index = result[i].y * cols + result[i].x
              /\ result[i].x \in 0 .. cols - 1
              /\ result[i].y \in 0 .. rows - 1
        /\ \A i, j \in DOMAIN result :
              i < j => \/ result[i].y < result[j].y
                       \/ result[i].y = result[j].y /\ result[i].x < result[j].x

(* The fallback for a 2x2 grid, returned without a call of the placer. *)
C11_Witness ==
    /\ genPc = "returned"
    /\ maxAttempts = 0
    /\ candidates = << >>
    /\ rows = 2 /\ cols = 2
    /\ Len(result) = 4

-----------------------------------------------------------------------------
(* pos.js *)

validGridConfig ==
    /\ posConfig.cellWidth > 0 /\ posConfig.cellHeight > 0
    /\ posConfig.cols > 0 /\ posConfig.rows > 0

inBounds(block) ==
    /\ block.x >= 0 /\ block.y >= 0
    /\ block.x + block.w <= posConfig.cols
    /\ block.y + block.h <= posConfig.rows

(* C12: for a valid grid config and in-bounds blocks calculatePositions    *)
(* returns one position per block, in input order and with the block's     *)
(* index, where x = col*cellWidth + padding + bleed,                        *)
(* y = row*cellHeight + padding + bleed, width = cellWidth*w,               *)
(* height = cellHeight*h, renderWidth = width - 2*padding and               *)
(* renderHeight = height - 2*padding; a block whose render size is not     *)
(* positive has its position like any other.                                *)
C12_Positions ==
    (callPc = "done" /\ validGridConfig /\ \A i \in DOMAIN posBlocks : inBounds(posBlocks[i])) =>
        /\ ~posResult.threw
        /\ Len(posResult.positions) = Len(posBlocks)
        /\ \A i \in DOMAIN posBlocks :
              LET p == posResult.positions[i]
                  b == posBlocks[i]
              IN  /\ p.index = b.index
                  /\ p.x = b.x * posConfig.cellWidth + posConfig.padding + posConfig.bleed
                  /\ p.y = b.y * posConfig.cellHeight + posConfig.padding + posConfig.bleed
                  /\ p.width = posConfig.cellWidth * b.w
                  /\ p.height = posConfig.cellHeight * b.h
                  /\ p.renderWidth = p.width - 2 * posConfig.padding
                  /\ p.renderHeight = p.height - 2 * posConfig.padding

(* createGridConfig(1200, 1200, 4, 4, 10, 0) and the block {0, 0, 2, 2}:  *)
(* width = height = 600, renderWidth = renderHeight = 580, x = y = 10.     *)
C12_Witness ==
    /\ callPc = "done"
    /\ posArgs = [pageWidth |-> 1200, pageHeight |-> 1200, gridCols |-> 4, gridRows |-> 4,
                  padding |-> 10, bleed |-> 0]
    /\ posBlocks = << [x |-> 0, y |-> 0, w |-> 2, h |-> 2, index |-> 0] >>
    /\ ~posResult.threw
    /\ posResult.positions = << [x |-> 10, y |-> 10, width |-> 600, height |-> 600,
                                 renderWidth |-> 580, renderHeight |-> 580, index |-> 0] >>


(* C13: calculatePositions throws, and so returns no position at all,      *)
(* exactly when cellWidth, cellHeight, cols or rows is not positive or     *)
(* some block lies outside the grid; otherwise it returns normally.        *)
C13_ConfigurationError ==
    callPc = "done" =>
        /\ posResult.threw <=>
              (~validGridConfig \/ \E i \in DOMAIN posBlocks : ~inBounds(posBlocks[i]))
        /\ posResult.threw => posResult.positions = << >>
        /\ ~posResult.threw => Len(posResult.positions) = Len(posBlocks)

(* A valid config, a first block inside the grid and a second one beyond   *)
(* its right edge: the call throws.                                         *)
C13_Witness ==
    /\ callPc = "done"
    /\ validGridConfig
    /\ Len(posBlocks) = 2
    /\ inBounds(posBlocks[1])
    /\ posBlocks[2].x + posBlocks[2].w > posConfig.cols
    /\ posResult.threw


(* C14: createGridConfig sets cellWidth = floor((pageW - 2*bleed)/cols)    *)
(* and cellHeight = floor((pageH - 2*bleed)/rows): the grid is not larger  *)
(* than the usable area and what is left over is less than cols (rows)     *)
(* pixels.                                                                  *)
C14_FloorCells ==
    (posArgs # << >> /\ callPc # "createGridConfig") =>
        LET usableWidth == posArgs.pageWidth - 2 * posArgs.bleed
            usableHeight == posArgs.pageHeight - 2 * posArgs.bleed
        IN  /\ posConfig.cols = posArgs.gridCols
            /\ posConfig.rows = posArgs.gridRows
            /\ posConfig.cols * posConfig.cellWidth <= usableWidth
            /\ usableWidth - posConfig.cols * posConfig.cellWidth < posConfig.cols
            /\ posConfig.rows * posConfig.cellHeight <= usableHeight
            /\ usableHeight - posConfig.rows * posConfig.cellHeight < posConfig.rows

(* A usable area of 6 x 1196 in a 4 x 3 grid: cells of 1 x 398, two        *)
(* pixels of the width left over.                                           *)
C14_Witness ==
    /\ callPc = "calculatePositions"
    /\ posArgs = [pageWidth |-> 10, pageHeight |-> 1200, gridCols |-> 4, gridRows |-> 3,
                  padding |-> 0, bleed |-> 2]
    /\ posConfig.cellWidth = 1
    /\ posConfig.cellHeight = 398

-----------------------------------------------------------------------------
(* selectPhoto *)

(* C15: selectPhoto returns -1 exactly when the queue is empty, otherwise  *)
(* an index i with 0 <= i < queue length; it leaves the queue as it was.   *)
C15_SelectIndex ==
    /\ [](callPc = "done" =>
            /\ selResult = 0 - 1 <=> selQueue = << >>
            /\ selQueue # << >> => selResult \in 0 .. Len(selQueue) - 1)
    /\ [][selQueue' = selQueue]_vars

(* A queue of three photos and a block where the one photo scored is below *)
(* zero: an index is returned all the same.                                 *)
C15_Witness ==
    /\ callPc = "done"
    /\ Len(selQueue) = 3
    /\ selResult = 2
    /\ \E i \in DOMAIN selScores : selScores[i][1] < 0


(* C16: the score selectPhoto gives a photo for a block is a weighted sum  *)
(* 0.4*aspect + 0.3*importance + 0.2*orientation + 0.1*harmony of          *)
(* sub-scores within 0..100, which is to say a number within 0..100, and   *)
(* the photo selected scores at least 95% of the highest score in the      *)
(* queue.  The code's score is a sum of bonuses on another scale, and an   *)
(* orientation mismatch makes it negative.                                  *)
C16_WeightedScore ==
    callPc = "done" =>
        /\ \A i \in DOMAIN selScores :
              /\ selScores[i][1] >= 0
              /\ selScores[i][1] <= 100 * selScores[i][2]
        /\ selQueue # << >> =>
              LET unit == 1000 * selBlock.h   \* a factor of every denominator
                  selected == selScores[selResult + 1]
              IN  \A i \in DOMAIN selScores :
                      20 * selected[1] * (selScores[i][2] \div unit)
                          >= 19 * selScores[i][1] * (selected[2] \div unit)

-----------------------------------------------------------------------------
(* The page loop, page by page *)

(* The for loop of the page in the making is over. *)
assignmentOver == mainPc = "assign" /\ ~(blockIndex < maxPhotosOnPage)

(* Q, the photos queued when the assignment of this page started *)
queuedAtStart == Len(photoQueue) + photosOnPage

(* C17: with B layout blocks and Q photos queued when assignment starts,   *)
(* the page ends with min(B, Q) placements and min(B, Q) photos removed    *)
(* from the queue, no block holding two photos; if B >= Q the queue is     *)
(* empty afterwards.  In the code a photo whose block has no positive      *)
(* render size leaves the queue without a placement.                        *)
C17_PageFill ==
    assignmentOver =>
        LET B == Len(page.grid.layoutBlocks)
            Q == queuedAtStart
        IN  /\ photosOnPage = Min2(B, Q)
            /\ Len(page.files) = Min2(B, Q)
            /\ \A i, j \in DOMAIN page.files :
                  (page.files[i].x = page.files[j].x /\ page.files[i].y = page.files[j].y) => i = j
            /\ B >= Q => photoQueue = << >>

(* C18: with one photo in the queue at the start the run makes exactly one *)
(* page, with exactly one placement, and ends.  In the code a page too     *)
(* small for its cells ends the run with no page, or with a page that has  *)
(* no placement.                                                            *)
C18_SinglePhoto ==
    totalPhotos = 1 =>
        /\ Len(pages) <= 1
        /\ mainPc # "crashed"
        /\ mainPc = "done" => (Len(pages) = 1 /\ Len(pages[1].files) = 1)

(* C19: when a single photo remains the page has a 1x1 grid and its layout *)
(* is one 1x1 block.  The code gives the last photo a 2x2 grid.            *)
C19_SinglePhotoGrid ==
    (mainPc = "assign" /\ queuedAtStart = 1) =>
        /\ page.grid.cols = 1
        /\ page.grid.rows = 1
        /\ Len(page.grid.layoutBlocks) = 1
        /\ page.grid.layoutBlocks[1].w = 1
        /\ page.grid.layoutBlocks[1].h = 1

(* C20: an error of layout generation or position calculation does not    *)
(* end the run: no run stops on the exception, and a page whose cells      *)
(* would have no width or height has the layout of one 1x1 block.  The     *)
(* code does not catch the exception.                                       *)
C20_EmergencyLayout ==
    /\ mainPc # "crashed"
    /\ (mainPc = "assign" /\ (PAGE_W - 2 * BLEED < 2 \/ PAGE_H - 2 * BLEED < 2)) =>
          (Len(page.grid.layoutBlocks) = 1
             /\ page.grid.layoutBlocks[1].w = 1 /\ page.grid.layoutBlocks[1].h = 1)

-----------------------------------------------------------------------------
(* validateLayout: the thresholds *)

(* The threshold the caller asked for: the value supplied, the default     *)
(* only for a key that is left out.                                         *)
supplied(key, fallback) ==
    IF key \in DOMAIN constraints THEN constraints[key] ELSE fallback

(* C21: validateLayout scores against every threshold value the caller     *)
(* supplies in constraints; the defaults 3, 0.4 and 1 apply only to the    *)
(* thresholds left out.  The code reads them with `||`, which replaces a   *)
(* supplied 0 by the default.                                               *)
C21_Configurable ==
    validation # << >> =>
      LET n == Len(layoutBlocks)
          minBlockVariety == supplied("minBlockVariety", 3)
          maxSingleCellPercent == supplied("maxSingleCellPercent", 40)
          minLargeBlocks == supplied("minLargeBlocks", 1)
          I == Cardinality({i \in 1 .. n : ~isValidRatio(layoutBlocks[i])})
          sizes == {layoutBlocks[i].w * layoutBlocks[i].h : i \in 1 .. n}
          ones == Cardinality({i \in 1 .. n : layoutBlocks[i].w = 1 /\ layoutBlocks[i].h = 1})
          large == Cardinality({i \in 1 .. n : layoutBlocks[i].w > 2 \/ layoutBlocks[i].h > 2})
          V == IF Cardinality(sizes) < minBlockVariety /\ n >= minBlockVariety THEN 1 ELSE 0
          S == IF n > 0 /\ ones * 100 > maxSingleCellPercent * n THEN 1 ELSE 0
          L == IF large < minLargeBlocks /\ n >= 4 THEN 1 ELSE 0
          raw == 100 - 20 * I - 15 * V - 10 * S - 10 * L
      IN  validation.score = (IF raw > 0 THEN raw ELSE 0)


(* ---------------------------------------------------------------------- *)
(* C22: in every layout generateLayout holds or returns (both variants),   *)
(* and in the uniform fallback layout of the same dimensions, the i-th     *)
(* block in placement order carries index i counted from 0: the indices    *)
(* are exactly 0 .. n-1, unique and strictly increasing.                   *)
(* ---------------------------------------------------------------------- *)
indexedInOrder(bs) == \A i \in DOMAIN bs : bs[i].index = i - 1

C22_Indices ==
    /\ indexedInOrder(blocks)
    /\ index = Len(blocks)
    /\ pass = 4 =>
         LET fallback == createFallbackLayout(rows, cols)
         IN  indexedInOrder(fallback) /\ Len(fallback) = rows * cols

(* A returned layout of five blocks or more whose first block is larger    *)
(* than a cell.                                                            *)
C22_Witness ==
    /\ pass = 4
    /\ Len(blocks) >= 5
    /\ blocks[1].w * blocks[1].h > 1
    /\ blocks[Len(blocks)].index = Len(blocks) - 1
    /\ rows * cols > Len(blocks)


(* ---------------------------------------------------------------------- *)
(* C23: every block the validating generateLayout places, in any pass and  *)
(* by any of its fallbacks, has one of the eight shapes 1x1, 1x2, 2x1,     *)
(* 2x2, 2x3, 3x2, 3x4, 4x3 (width x height in cells).                      *)
(* ---------------------------------------------------------------------- *)
eightShapes ==
    {<<1, 1>>, <<1, 2>>, <<2, 1>>, <<2, 2>>, <<2, 3>>, <<3, 2>>, <<3, 4>>, <<4, 3>>}

C23_ShapePalette ==
    variant = "validated" =>
      \A i \in DOMAIN blocks : <<blocks[i].w, blocks[i].h>> \in eightShapes

(* A returned 4x4 layout of the validating module that holds a large       *)
(* shape next to small ones.                                               *)
C23_Witness ==
    /\ variant = "validated"
    /\ pass = 4
    /\ \E i \in DOMAIN blocks : <<blocks[i].w, blocks[i].h>> = <<3, 4>>
    /\ \E i \in DOMAIN blocks : <<blocks[i].w, blocks[i].h>> = <<1, 2>>
    /\ \E i \in DOMAIN blocks : <<blocks[i].w, blocks[i].h>> = <<1, 1>>


(* ---------------------------------------------------------------------- *)
(* C24: on a last page the layout in use when the dimension search is over *)
(* (the for loop over its blocks begins) has at least as many blocks as    *)
(* there are photos left in the queue.                                     *)
(* ---------------------------------------------------------------------- *)
C24_EnoughBlocks ==
    (mainPc = "assign" /\ isLastPage /\ blockIndex = 0) =>
      Len(page.grid.layoutBlocks) >= Len(photoQueue)


(* ---------------------------------------------------------------------- *)
(* C25: in the last-page search, whenever the layout in use has fewer      *)
(* blocks than there are photos left, the layout that replaces it lies on  *)
(* a grid whose side is one larger than the current one, at most 10.       *)
(* ---------------------------------------------------------------------- *)
C25_GridGrows ==
    [][(/\ mainPc = "lastPage"
        /\ lastPageAttempts < 50
        /\ Len(page.grid.layoutBlocks) < Len(photoQueue)
        /\ mainPc' = "lastPage")
       => /\ page'.grid.cols = Min2(Max2(page.grid.cols, page.grid.rows) + 1, 10)
          /\ page'.grid.rows = page'.grid.cols]_vars


(* ---------------------------------------------------------------------- *)
(* C26: generateGrid accepts a generated layout as soon as at most 20% of  *)
(* its blocks have w/h outside [0.6, 2.5] (the loop does not go on with    *)
(* such a layout); it generates at most 20 layouts per call, and the 20th  *)
(* is used if none was accepted.                                           *)
(* ---------------------------------------------------------------------- *)
extremeBlocksCount(bs) == Cardinality({i \in DOMAIN bs : isExtreme(bs[i])})

C26_PercentageAcceptance ==
    /\ gridAttempts <= 20
    /\ (gridAttempts = 20 => callPc # "generateGrid")
    /\ (callPc = "generateGrid" /\ gridAttempts >= 1) =>
         ~(extremeBlocksCount(gridLayoutBlocks) * 100 <= 20 * Len(gridLayoutBlocks))


(* ---------------------------------------------------------------------- *)
(* C27: every block generateLayout of layout.js places has a w:h ratio     *)
(* equal to one of the seven ratios 1:1, 1:2, 2:1, 2:3, 3:2, 3:4, 4:3.     *)
(* ---------------------------------------------------------------------- *)
C27_BasicRatios ==
    variant = "basic" =>
      \A i \in DOMAIN blocks :
        \E k \in DOMAIN sevenRatios :
          blocks[i].w * sevenRatios[k][2] = sevenRatios[k][1] * blocks[i].h


(* ---------------------------------------------------------------------- *)
(* C28: at every state of generateLayout, intermediate ones included, the  *)
(* cells marked occupied are exactly the union of the footprints of the    *)
(* blocks emitted so far and those footprints are pairwise disjoint; every *)
(* step places blocks only on footprints that were entirely free and lie   *)
(* inside the grid, and no occupied cell becomes free again.               *)
(* ---------------------------------------------------------------------- *)
(* Two footprints with no cell in common. *)
apart(a, b) ==
    \/ a.x + a.w <= b.x \/ b.x + b.w <= a.x
    \/ a.y + a.h <= b.y \/ b.y + b.h <= a.y

occupiedIsUnion ==
    /\ \A cell \in DOMAIN grid :
         grid[cell] <=> \E i \in DOMAIN blocks : Covers(blocks[i], cell)
    /\ \A i \in DOMAIN blocks :
         /\ blocks[i].w >= 1 /\ blocks[i].h >= 1
         /\ \A j \in i + 1 .. Len(blocks) : apart(blocks[i], blocks[j])

placedOnFree ==
    /\ Len(blocks') >= Len(blocks)
    /\ \A i \in DOMAIN blocks : blocks'[i] = blocks[i]
    /\ \A i \in Len(blocks) + 1 .. Len(blocks') :
         /\ blocks'[i].x >= 0 /\ blocks'[i].x + blocks'[i].w <= cols
         /\ blocks'[i].y >= 0 /\ blocks'[i].y + blocks'[i].h <= rows
         /\ \A cell \in DOMAIN grid : Covers(blocks'[i], cell) => ~grid[cell]
    /\ \A cell \in DOMAIN grid : grid[cell] => grid'[cell]

C28_Occupancy == [](occupiedIsUnion) /\ [][placedOnFree]_vars

(* The validating placer in the middle of its second pass: two blocks or   *)
(* more, one of them of four cells or more, and a cell still free.         *)
C28_Witness ==
    /\ variant = "validated"
    /\ pass = 2
    /\ pos > 0
    /\ Len(blocks) >= 2
    /\ \E i \in DOMAIN blocks : blocks[i].w * blocks[i].h >= 4
    /\ \E cell \in Cells(rows, cols) : ~grid[cell]


positiveSize(p) == p.renderWidth > 0 /\ p.renderHeight > 0

rectanglesOverlap(p, q) ==
    /\ positiveSize(p) /\ positiveSize(q)
    /\ p.x < q.x + q.renderWidth /\ q.x < p.x + p.renderWidth
    /\ p.y < q.y + q.renderHeight /\ q.y < p.y + p.renderHeight

insideUsableArea(p) ==
    /\ p.x * 10 >= posArgs.bleedTenths
    /\ (p.x + p.renderWidth) * 10 <= posArgs.pageWidth * 10 - posArgs.bleedTenths
    /\ p.y * 10 >= posArgs.bleedTenths
    /\ (p.y + p.renderHeight) * 10 <= posArgs.pageHeight * 10 - posArgs.bleedTenths

C30_RenderRectangles ==
    (callPc = "done" /\ ~posResult.threw) =>
      LET ps == posResult.positions
      IN  /\ \A i, j \in DOMAIN ps : i # j => ~rectanglesOverlap(ps[i], ps[j])
          /\ \A i \in DOMAIN ps : positiveSize(ps[i]) => insideUsableArea(ps[i])

=============================================================================
